---- MODULE Spec2Model ----
(***************************************************************************)
(* State-machine model of agent/defai-agent.py, the DeFAI agent of the     *)
(* 100x Jackpot game: the event-monitoring task, the daily summary task,   *)
(* the time-windowed on-chain interaction task, and the tweet formatter.   *)
(*                                                                         *)
(* The chain (blocks, the contract's event log and its counters) and the   *)
(* wall clock are the environment; their actions interleave with every     *)
(* step of a task.  A chain call made by a task either returns or raises.  *)
(***************************************************************************)
EXTENDS Integers, Sequences, FiniteSets, Bags, TLC

(***************************************************************************)
(* Bounds of the model.                                                    *)
(***************************************************************************)
MaxEvents == 2        \* events the contract emits in a run
MaxRestarts == 1      \* process restarts in a run
StartJackpot == 1     \* jackpotAmount when the run starts
StartGuesses == 8     \* totalGuesses when the run starts
MaxLatency == 1       \* clock ticks that may fall into one on-chain cycle
MaxDays == 1          \* days the on-chain task is followed
MaxMessageLen == 300  \* longest message handed to post_to_twitter
MainEvents == 1       \* events the contract emits in a run of all three tasks
MainMinutes == 30     \* minutes a run of all three tasks is followed
MaxGas == 2           \* gas prices the network moves between

(***************************************************************************)
(* Program constants.                                                      *)
(***************************************************************************)
LOOKBACK == 1000          \* from_block = latest_block - 1000
MON_IDLE == 30            \* asyncio.sleep(30)
MON_ERROR == 60           \* asyncio.sleep(60)
MILESTONE == 10           \* total_guesses % 10 == 0
MIN_GUESS_LEN == 5        \* len(guess) > 5
SAMPLE_MOD == 5           \* hash(guess) % 5 == 0
SUM_IDLE == 86400         \* asyncio.sleep(86400)
SUM_ERROR == 3600         \* asyncio.sleep(3600)
WINDOW_MINUTES == 5       \* datetime.now().minute < 5
NUM_MESSAGES == 3         \* len(engagement_messages)
OC_COOLDOWN == 10800      \* asyncio.sleep(10800)
OC_RECHECK == 900         \* asyncio.sleep(900)
OC_ERROR == 3600          \* asyncio.sleep(3600)
TWEET_MAX == 280          \* len(tweet) > 280
TWEET_KEEP == 277         \* tweet[:277]
LEN_ELLIPSIS == 3         \* len("...")
LEN_HASHTAGS == 53        \* len(hashtags)
LEN_NEW_SECRET == 74      \* len(EVENT_DESCRIPTIONS["NEW_SECRET"])
LEN_JACKPOT_FUNDED == 53  \* len(EVENT_DESCRIPTIONS["JACKPOT_FUNDED"])
LEN_JACKPOT_WON == 59     \* len(EVENT_DESCRIPTIONS["JACKPOT_WON"])
LEN_NEW_HINT == 58        \* len(EVENT_DESCRIPTIONS["NEW_HINT"])
LEN_LARGE_BATCH == 60     \* len(EVENT_DESCRIPTIONS["LARGE_BATCH"])

\* The four filters, in the order the loop polls them.
Kinds == <<"SocialAnnouncement", "GuessCommitted", "GuessRevealed", "JackpotWon">>
NKinds == Len(Kinds)

\* Guess texts the environment reveals, with len(guess) and a code standing
\* for the text's bytes in the hash.
Guesses == {"elephant", "cat"}
GuessLen == [g \in Guesses |-> IF g = "elephant" THEN 8 ELSE 3]
GuessCode == [g \in Guesses |-> IF g = "elephant" THEN 5 ELSE 7]
\* The seeds a Python process may draw for its string hash.
Seeds == {0, 1}

\* lines 19-23: the environment variables without a default (the signing key
\* and the four Twitter credentials, taken as one).
EnvNames == {"PRIVATE_KEY", "TWITTER"}

VARIABLES
    \* ---- the chain
    block_number,      \* web3.eth.block_number
    chainLog,          \* the contract's events, in emission order
    totalGuesses,      \* jackpot_game.functions.totalGuesses()
    jackpotAmount,     \* jackpot_game.functions.jackpotAmount()
    uniquePlayers,     \* jackpot_game.functions.uniquePlayers()
    gas_price,         \* web3.eth.gas_price
    \* ---- the process
    proc,              \* "running" | "failing" (a task has raised and main
                       \* is not yet resumed) | "dead"
    hashSeed,          \* the process's string-hash seed (PYTHONHASHSEED)
    restarts,          \* restarts so far
    environ,           \* the names of EnvNames that os.getenv finds set
    running,           \* the task the event loop is running ("none": all wait)
    \* ---- monitor_game_events
    mon_pc,            \* "setup" | "fetch" | "process" | "sleeping" | "raised"
    mon_kind,          \* index in Kinds of the filter being polled
    cursor,            \* per filter: the block up to which it has returned events
    batch,             \* events of the current for-loop not yet visited
    mon_delay,         \* seconds of the current asyncio.sleep (0: none yet)
    \* ---- observation (history, not program state)
    classified,        \* indices in chainLog of events a loop body has visited
    guessTrace,        \* one record per GuessCommitted event visited
    decisions,         \* [ev, publish] per GuessRevealed event visited
    posts,             \* bag of published messages
    cyc,               \* the current cycle: what it fetched, how it ended
    lastFetch,         \* the last failed get_new_entries and its retry
    \* ---- daily_jackpot_summary
    sum_pc,            \* "off" | "start" | "sleeping"
    sum_delay,         \* seconds of the current asyncio.sleep
    sum_wake,          \* the clock at which the current sleep ends
    sum_last,          \* how the cycle before the current sleep ended: "sent",
                       \* "unsent" (post_to_twitter returned False), "error"
                       \* (the except of line 206), "none" (observation)
    \* ---- the wall clock, in minutes since 00:00 of the first day
    clock,
    \* ---- on_chain_interaction
    oc_pc,             \* "off" | "setup" | "hour" | "minute" | "info" | "build"
                       \* | "send" | "sleeping" | "raised"
    current_hour,      \* the local of line 221
    oc_wake,           \* the clock at which the current sleep ends
    oc_delay,          \* seconds of the current asyncio.sleep
    oc_lat,            \* clock ticks that fell into the current cycle
    tx,                \* the transaction built in the current cycle
    txs,               \* the transactions sent, oldest first (history)
    oc_obs,            \* observation of the task: how the cycle before the
                       \* current sleep ended, the chain values read in the
                       \* current cycle
    \* ---- post_to_twitter
    tw_pc,             \* "off" | "idle" | "posted"
    tw_type,           \* announcement_type of the last call
    tw_message,        \* message of the last call
    tweet              \* the text the last call printed

chainVars == <<block_number, chainLog, totalGuesses, jackpotAmount, uniquePlayers,
               gas_price>>
procVars == <<proc, hashSeed, restarts, environ>>
monVars == <<mon_pc, mon_kind, cursor, batch, mon_delay>>
histVars == <<classified, guessTrace, decisions, posts, cyc, lastFetch>>
sumVars == <<sum_pc, sum_delay, sum_wake, sum_last>>
ocVars == <<oc_pc, current_hour, oc_wake, oc_delay, oc_lat, tx, txs, oc_obs>>
twVars == <<tw_pc, tw_type, tw_message, tweet>>
vars == <<chainVars, procVars, running, monVars, histVars, sumVars, clock,
          ocVars, twVars>>
\* What the monitoring task and the chain leave alone.
others == <<sumVars, clock, ocVars, twVars>>

(***************************************************************************)
(* The chain.                                                              *)
(***************************************************************************)
Event(k, arg, won) ==
    [kind |-> k, height |-> block_number + 1, arg |-> arg, won |-> won]

Emit(e, limit) ==
    /\ Len(chainLog) < limit
    /\ block_number' = block_number + 1
    /\ chainLog' = Append(chainLog, e)

\* The contract emits SocialAnnouncement(announcementType, message).
EmitSocial(limit) ==
    /\ Emit(Event("SocialAnnouncement", "NEW_HINT", FALSE), limit)
    /\ UNCHANGED <<totalGuesses, jackpotAmount, uniquePlayers, gas_price>>

\* A player commits a guess: GuessCommitted, and totalGuesses counts it.
CommitGuess(limit) ==
    /\ Emit(Event("GuessCommitted", "", FALSE), limit)
    /\ totalGuesses' = totalGuesses + 1
    /\ uniquePlayers' = 1
    /\ UNCHANGED <<jackpotAmount, gas_price>>

\* A player reveals a guess: GuessRevealed(player, guess, won).
RevealGuess(limit) ==
    /\ \E g \in Guesses, w \in BOOLEAN : Emit(Event("GuessRevealed", g, w), limit)
    /\ UNCHANGED <<totalGuesses, jackpotAmount, uniquePlayers, gas_price>>

\* The jackpot is paid out: JackpotWon(winner, amount, guess).
WinJackpot(limit) ==
    /\ Emit(Event("JackpotWon", "elephant", TRUE), limit)
    /\ jackpotAmount' = 0
    /\ UNCHANGED <<totalGuesses, uniquePlayers, gas_price>>

\* The contract's activity, up to limit events.
ChainStep(limit) ==
    /\ \/ EmitSocial(limit)
       \/ CommitGuess(limit)
       \/ RevealGuess(limit)
       \/ WinJackpot(limit)
    /\ UNCHANGED <<procVars, running, monVars, histVars, others>>

\* The network's gas price moves.
GasPriceMoves ==
    /\ \E g \in (1 .. MaxGas) \ {gas_price} : gas_price' = g
    /\ UNCHANGED <<block_number, chainLog, totalGuesses, jackpotAmount,
                   uniquePlayers, procVars, running, monVars, histVars, others>>

(***************************************************************************)
(* Helpers of the monitoring task.                                         *)
(***************************************************************************)
RECURSIVE NewEntries(_, _)
\* The indices j >= i of chainLog, ascending, whose event is of kind Kinds[k]
\* and lies above the filter's cursor.
NewEntries(k, i) ==
    IF i > Len(chainLog) THEN <<>>
    ELSE (IF chainLog[i].kind = Kinds[k] /\ chainLog[i].height > cursor[k]
          THEN <<i>> ELSE <<>>) \o NewEntries(k, i + 1)

\* filter.get_new_entries(): the filter's events above its cursor, oldest
\* first, as indices in chainLog.
get_new_entries(k) == NewEntries(k, 1)

\* Where filter k stands once it has returned batch b: past the newest event
\* of b (an empty batch leaves it where it was).
FilterPosition(k, b) ==
    IF b = <<>> THEN cursor[k] ELSE chainLog[b[Len(b)]].height

\* get_jackpot_info(): the snapshot of the three counters.
get_jackpot_info ==
    [jackpot_s |-> jackpotAmount,
     total_guesses |-> totalGuesses,
     unique_players |-> uniquePlayers]

\* Python's hash() of a str: keyed by the seed the process drew at start.
PyHash(seed, g) == GuessCode[g] + seed

\* The milestone test taken one guess early.
IsMilestoneEarly(total) == total % MILESTONE = MILESTONE - 1

\* line 104: the milestone test.
IsMilestone(total) == total % MILESTONE = 0

\* lines 122-124: whether a GuessRevealed event gets a commentary.
NiceTry(guess, won, seed) ==
    /\ ~won
    /\ GuessLen[guess] > MIN_GUESS_LEN
    /\ PyHash(seed, guess) % SAMPLE_MOD = 0

\* A published message: post_to_twitter printed it.
Post(type, ev, total, jackpot) ==
    [type |-> type, ev |-> ev, total |-> total, jackpot |-> jackpot]

Published(m) == posts (+) SetToBag({m})

NoCursor == [k \in 1 .. NKinds |-> 0]
\* lastFetch: the filter whose poll failed last and the cursor it held then
\* (kind 0: none), and how the first poll of that filter after it started.
NoFetch == [kind |-> 0, from |-> 0, retry |-> "none"]
\* cyc: the filters whose cursor this cycle changed, the events its polls
\* returned, what raised ("none", "fetch", "process") at which filter, and
\* whether a post_to_twitter call of the cycle returned False.
NewCycle == [moved |-> {}, got |-> {}, failed |-> "none", failKind |-> 0,
             unsent |-> FALSE]

(***************************************************************************)
(* monitor_game_events.                                                    *)
(***************************************************************************)
\* lines 69-79: read the latest block and create the four filters.
MonSetup ==
    /\ proc = "running" /\ running = "none" /\ mon_pc = "setup"
    /\ running' = "monitor"
    /\ LET latest_block == block_number
           from_block == latest_block - LOOKBACK
           c == [k \in 1 .. NKinds |-> from_block - 1]
       IN  /\ cursor' = c
           /\ cyc' = NewCycle
    /\ mon_pc' = "fetch"
    /\ mon_kind' = 1
    /\ UNCHANGED <<batch, mon_delay, classified, guessTrace, decisions, posts,
                   lastFetch, chainVars, procVars, others>>

\* lines 69-79 raise (block_number or create_filter): no try encloses them,
\* the exception leaves the coroutine and ends the task; asyncio.gather hands
\* it to main once the tasks started with it have had their first run.
MonSetupRaises ==
    /\ proc = "running" /\ running = "none" /\ mon_pc = "setup"
    /\ mon_pc' = "raised"
    /\ proc' = "failing"
    /\ running' = "none"
    /\ UNCHANGED <<mon_kind, cursor, batch, mon_delay, histVars, chainVars,
                   hashSeed, restarts, environ, others>>

\* A loop body that hands the event loop to the other tasks after each event.
AfterBatchYields(b, k) ==
    IF b # <<>> THEN
        /\ mon_pc' = "process" /\ mon_kind' = k /\ mon_delay' = mon_delay
        /\ running' = "none"
    ELSE IF k < NKinds THEN
        /\ mon_pc' = "fetch" /\ mon_kind' = k + 1 /\ mon_delay' = mon_delay
        /\ running' = running
    ELSE
        /\ mon_pc' = "sleeping" /\ mon_kind' = k /\ mon_delay' = MON_IDLE
        /\ running' = "none"

\* What follows a for-loop over batch b of filter k: the loop body again, the
\* next filter's poll, or line 143.
AfterBatch(b, k) ==
    IF b # <<>> THEN
        /\ mon_pc' = "process" /\ mon_kind' = k /\ mon_delay' = mon_delay
        /\ running' = running
    ELSE IF k < NKinds THEN
        /\ mon_pc' = "fetch" /\ mon_kind' = k + 1 /\ mon_delay' = mon_delay
        /\ running' = running
    ELSE
        /\ mon_pc' = "sleeping" /\ mon_kind' = k /\ mon_delay' = MON_IDLE
        /\ running' = "none"

RECURSIVE SeqToSet(_)
SeqToSet(q) == IF q = <<>> THEN {} ELSE {Head(q)} \cup SeqToSet(Tail(q))

\* Observation of a poll of filter k that returned: whether it is the retry
\* of the last failed poll, and from which cursor.
NoteRetry(k) ==
    IF lastFetch.kind = k
    THEN [kind |-> 0, from |-> 0,
          retry |-> IF cursor[k] = lastFetch.from THEN "same" ELSE "moved"]
    ELSE lastFetch

\* lines 85, 97, 113, 132: get_new_entries returns; the filter has moved.
MonFetch ==
    /\ proc = "running" /\ running = "monitor" /\ mon_pc = "fetch"
    /\ LET k == mon_kind
           b == get_new_entries(k)
       IN  /\ batch' = b
           /\ cursor' = [cursor EXCEPT ![k] = FilterPosition(k, b)]
           /\ cyc' = [cyc EXCEPT
                        !.moved = IF cursor'[k] # cursor[k] THEN @ \cup {k} ELSE @,
                        !.got = @ \cup SeqToSet(b)]
           /\ lastFetch' = NoteRetry(k)
           /\ AfterBatch(b, k)
    /\ UNCHANGED <<classified, guessTrace, decisions, posts, chainVars, procVars, others>>

\* A failed poll that consumes what was pending.
FetchFailCursorSkips(k) == [cursor EXCEPT ![k] = block_number]

\* The cursors a failed get_new_entries leaves.
FetchFailCursor(k) == cursor

\* The except of the loop with a sleep of a tenth of line 147's.
MonExceptShort ==
    /\ mon_pc' = "sleeping"
    /\ mon_delay' = MON_ERROR \div 10
    /\ batch' = <<>>
    /\ mon_kind' = mon_kind
    /\ running' = "none"

\* lines 145-147: the except of the loop.
MonExcept ==
    /\ mon_pc' = "sleeping"
    /\ mon_delay' = MON_ERROR
    /\ batch' = <<>>
    /\ mon_kind' = mon_kind
    /\ running' = "none"

\* get_new_entries raises (transport error).
MonFetchRaises ==
    /\ proc = "running" /\ running = "monitor" /\ mon_pc = "fetch"
    /\ cursor' = FetchFailCursor(mon_kind)
    /\ cyc' = [cyc EXCEPT
                 !.moved = IF cursor'[mon_kind] # cursor[mon_kind]
                           THEN @ \cup {mon_kind} ELSE @,
                 !.failed = "fetch", !.failKind = mon_kind]
    /\ lastFetch' = [kind |-> mon_kind, from |-> cursor[mon_kind], retry |-> "none"]
    /\ MonExcept
    /\ UNCHANGED <<classified, guessTrace, decisions, posts, chainVars, procVars, others>>

\* lines 86-94: one SocialAnnouncement; post_to_twitter returns True or,
\* having caught its own exception, False.
MonSocial ==
    /\ proc = "running" /\ running = "monitor" /\ mon_pc = "process" /\ Kinds[mon_kind] = "SocialAnnouncement"
    /\ LET ev == Head(batch)
           e == chainLog[ev]
       IN  /\ classified' = classified \cup {ev}
           /\ \E sent \in BOOLEAN :
                /\ posts' = IF sent THEN Published(Post(e.arg, ev, 0, 0)) ELSE posts
                /\ cyc' = [cyc EXCEPT !.unsent = @ \/ ~sent]
    /\ batch' = Tail(batch)
    /\ AfterBatch(Tail(batch), mon_kind)
    /\ UNCHANGED <<cursor, guessTrace, decisions, lastFetch, chainVars, procVars, others>>

GuessRecord(ev, total, info, publish) ==
    [ev |-> ev, total |-> total, info |-> info, publish |-> publish]

\* lines 98-110: one GuessCommitted; the reads return and the loop goes on.
MonGuess ==
    /\ proc = "running" /\ running = "monitor" /\ mon_pc = "process" /\ Kinds[mon_kind] = "GuessCommitted"
    /\ LET ev == Head(batch)
           total_guesses == totalGuesses
       IN  /\ classified' = classified \cup {ev}
           /\ IF IsMilestone(total_guesses) THEN
                 LET info == get_jackpot_info
                 IN  \E sent \in BOOLEAN :
                       /\ posts' = IF sent
                                   THEN Published(Post("GUESS_MILESTONE", ev,
                                                       total_guesses, info.jackpot_s))
                                   ELSE posts
                       /\ guessTrace' = guessTrace \cup
                             {GuessRecord(ev, total_guesses, "ok",
                                          IF sent THEN "ok" ELSE "failed")}
                       /\ cyc' = [cyc EXCEPT !.unsent = @ \/ ~sent]
              ELSE
                 /\ posts' = posts
                 /\ guessTrace' = guessTrace \cup
                       {GuessRecord(ev, total_guesses, "none", "none")}
                 /\ cyc' = cyc
    /\ batch' = Tail(batch)
    /\ AfterBatch(Tail(batch), mon_kind)
    /\ UNCHANGED <<cursor, decisions, lastFetch, chainVars, procVars, others>>

\* lines 103, 105: totalGuesses().call() raises, or it returns a milestone and
\* a call of get_jackpot_info raises; the except of the loop takes over.
MonGuessRaises ==
    /\ proc = "running" /\ running = "monitor" /\ mon_pc = "process" /\ Kinds[mon_kind] = "GuessCommitted"
    /\ LET ev == Head(batch)
       IN  /\ classified' = classified \cup {ev}
           /\ \/ guessTrace' = guessTrace \cup {GuessRecord(ev, -1, "none", "none")}
              \/ /\ IsMilestone(totalGuesses)
                 /\ guessTrace' = guessTrace \cup
                       {GuessRecord(ev, totalGuesses, "failed", "none")}
    /\ cyc' = [cyc EXCEPT !.failed = "process", !.failKind = mon_kind]
    /\ MonExcept
    /\ UNCHANGED <<cursor, decisions, posts, lastFetch, chainVars, procVars, others>>

\* lines 114-129: one GuessRevealed.
MonReveal ==
    /\ proc = "running" /\ running = "monitor" /\ mon_pc = "process" /\ Kinds[mon_kind] = "GuessRevealed"
    /\ LET ev == Head(batch)
           guess == chainLog[ev].arg
           won == chainLog[ev].won
           nice == NiceTry(guess, won, hashSeed)
       IN  /\ classified' = classified \cup {ev}
           /\ decisions' = decisions \cup {[ev |-> ev, publish |-> nice]}
           /\ IF nice THEN
                 \E sent \in BOOLEAN :
                    /\ posts' = IF sent
                                THEN Published(Post("INTERESTING_GUESS", ev, 0, 0))
                                ELSE posts
                    /\ cyc' = [cyc EXCEPT !.unsent = @ \/ ~sent]
              ELSE posts' = posts /\ cyc' = cyc
    /\ batch' = Tail(batch)
    /\ AfterBatch(Tail(batch), mon_kind)
    /\ UNCHANGED <<cursor, guessTrace, lastFetch, chainVars, procVars, others>>

\* lines 133-138: one JackpotWon, logged only.
MonWin ==
    /\ proc = "running" /\ running = "monitor" /\ mon_pc = "process" /\ Kinds[mon_kind] = "JackpotWon"
    /\ classified' = classified \cup {Head(batch)}
    /\ batch' = Tail(batch)
    /\ AfterBatch(Tail(batch), mon_kind)
    /\ UNCHANGED <<cursor, guessTrace, decisions, posts, cyc, lastFetch,
                   chainVars, procVars, others>>

\* The sleep of line 143 or 147 is over: the next iteration of the loop.
MonWake ==
    /\ proc = "running" /\ running = "none" /\ mon_pc = "sleeping"
    /\ running' = "monitor"
    /\ mon_pc' = "fetch"
    /\ mon_kind' = 1
    /\ mon_delay' = 0
    /\ cyc' = NewCycle
    /\ lastFetch' = [lastFetch EXCEPT !.retry = "none"]
    /\ UNCHANGED <<cursor, batch, classified, guessTrace, decisions,
                   posts, chainVars, procVars, others>>

\* The process is stopped and started again: a new hash seed, new filters.
Restart ==
    /\ restarts < MaxRestarts
    /\ restarts' = restarts + 1
    /\ proc' = "running"
    /\ \E s \in Seeds : hashSeed' = s
    /\ mon_pc' = "setup"
    /\ mon_kind' = 1
    /\ cursor' = NoCursor
    /\ batch' = <<>>
    /\ mon_delay' = 0
    /\ cyc' = NewCycle
    /\ lastFetch' = NoFetch
    /\ running' = "none"
    /\ UNCHANGED <<classified, guessTrace, decisions, posts, chainVars, environ,
                   others>>

Monitor ==
    \/ MonSetup
    \/ MonSetupRaises
    \/ MonFetch
    \/ MonFetchRaises
    \/ MonSocial
    \/ MonGuess
    \/ MonGuessRaises
    \/ MonReveal
    \/ MonWin
    \/ MonWake

(***************************************************************************)
(* The wall clock and the windows.                                         *)
(***************************************************************************)
\* datetime.now().hour, .minute and .day of a clock value.
HourOf(c) == (c \div 60) % 24
MinuteOf(c) == c % 60
DayOf(c) == (c \div (24 * 60)) + 1

\* The two daily windows: 12:00-12:05 and 18:00-18:05.
WindowHours == {12, 18}
InWindow(c) == HourOf(c) \in WindowHours /\ MinuteOf(c) < WINDOW_MINUTES

\* The clock values at which a window opens, up to the end of day MaxDays + 1.
WindowStarts == {d * 24 * 60 + h * 60 : d \in 0 .. MaxDays, h \in WindowHours}

\* No value read in this cycle.
NotRead == -1
NoObs == [last |-> "none", nonceRead |-> NotRead, gasRead |-> NotRead]

(***************************************************************************)
(* daily_jackpot_summary.                                                  *)
(***************************************************************************)
\* line 185: the next iteration of the loop (the first one, or after a sleep).
SumWake(horizon) ==
    /\ running = "none"
    /\ \/ proc = "running" /\ sum_pc = "sleeping"
       \/ proc # "dead" /\ sum_pc = "start" /\ mon_pc # "setup"
    /\ sum_wake < horizon
    /\ clock' = IF sum_wake > clock THEN sum_wake ELSE clock
    /\ running' = "summary"
    /\ sum_pc' = "info"
    /\ sum_delay' = 0
    /\ sum_last' = "none"
    /\ UNCHANGED <<chainVars, procVars, monVars, histVars, sum_wake, ocVars, twVars>>

\* lines 188-204: the snapshot is read, the summary goes to post_to_twitter
\* (which returns True or False), and the task sleeps a day.
SumPost ==
    /\ proc # "dead" /\ running = "summary" /\ sum_pc = "info"
    /\ LET info == get_jackpot_info
       IN  \E sent \in BOOLEAN :
             /\ posts' = IF sent
                         THEN Published(Post("DAILY_SUMMARY", 0, info.total_guesses,
                                             info.jackpot_s))
                         ELSE posts
             /\ sum_last' = IF sent THEN "sent" ELSE "unsent"
    /\ sum_pc' = "sleeping"
    /\ sum_delay' = SUM_IDLE
    /\ sum_wake' = clock + SUM_IDLE \div 60
    /\ running' = "none"
    /\ UNCHANGED <<chainVars, procVars, monVars, classified, guessTrace,
                   decisions, cyc, lastFetch, clock, ocVars, twVars>>

\* lines 206-208: a call of get_jackpot_info raises.
SumRaises ==
    /\ proc # "dead" /\ running = "summary" /\ sum_pc = "info"
    /\ sum_pc' = "sleeping"
    /\ sum_delay' = SUM_ERROR
    /\ sum_wake' = clock + SUM_ERROR \div 60
    /\ sum_last' = "error"
    /\ running' = "none"
    /\ UNCHANGED <<chainVars, procVars, monVars, histVars, clock, ocVars, twVars>>

Summary(horizon) ==
    \/ SumWake(horizon)
    \/ SumPost
    \/ SumRaises

(***************************************************************************)
(* on_chain_interaction.                                                   *)
(***************************************************************************)
\* asyncio.sleep(seconds) called at the current clock.
OcSleep(seconds) ==
    /\ oc_pc' = "sleeping"
    /\ oc_delay' = seconds
    /\ oc_wake' = clock + seconds \div 60
    /\ running' = "none"

\* The cycle ends: "skip" (line 258), "sent" (line 255) or "error" (line 262).
Outcome(how) == [oc_obs EXCEPT !.last = how]

\* The sleep after a sent transaction taken for minutes where the call
\* takes seconds: three minutes.
OcCooldownShort == OC_COOLDOWN \div 60

\* line 255: the sleep after a sent transaction.
OcCooldown == OC_COOLDOWN

NoTx == [msg |-> 0, nonce |-> 0, gasPrice |-> 0, at |-> 0]

\* The clock moves on by a minute while the task is inside a cycle.
Tick(horizon) ==
    /\ proc # "dead" /\ running = "onchain"
    /\ oc_lat < MaxLatency
    /\ clock + 1 < horizon
    /\ clock' = clock + 1
    /\ oc_lat' = oc_lat + 1
    /\ UNCHANGED <<chainVars, procVars, running, monVars, histVars, sumVars,
                   oc_pc, current_hour, oc_wake, oc_delay, tx, txs, oc_obs, twVars>>

\* lines 213-216: the account is derived from the key.
OcSetup ==
    /\ proc # "dead" /\ running = "none" /\ oc_pc = "setup"
    /\ mon_pc # "setup" /\ sum_pc # "start"
    /\ "PRIVATE_KEY" \in environ
    /\ running' = "onchain"
    /\ oc_pc' = "hour"
    /\ UNCHANGED <<chainVars, procVars, monVars, histVars, sumVars, clock,
                   current_hour, oc_wake, oc_delay, oc_lat, tx, txs, oc_obs, twVars>>

\* line 213 raises (PRIVKEY is None, or a malformed key): no try encloses it,
\* the exception leaves the coroutine and asyncio.gather hands it to main.
OcSetupRaises ==
    /\ proc # "dead" /\ running = "none" /\ oc_pc = "setup"
    /\ mon_pc # "setup" /\ sum_pc # "start"
    /\ oc_pc' = "raised"
    /\ proc' = "failing"
    /\ UNCHANGED <<chainVars, hashSeed, restarts, environ, running, monVars, histVars,
                   sumVars, clock, current_hour, oc_wake, oc_delay, oc_lat, tx,
                   txs, oc_obs, twVars>>

\* line 221 and the first operand of line 224.
OcHour ==
    /\ proc # "dead" /\ running = "onchain" /\ oc_pc = "hour"
    /\ current_hour' = HourOf(clock)
    /\ IF current_hour' \in WindowHours
       THEN /\ oc_pc' = "minute"
            /\ UNCHANGED <<oc_wake, oc_delay, running, oc_obs>>
       ELSE OcSleep(OC_RECHECK) /\ oc_obs' = Outcome("skip")
    /\ UNCHANGED <<chainVars, procVars, monVars, histVars, sumVars, clock,
                   oc_lat, tx, txs, twVars>>

\* line 224, second operand: datetime.now() is read again.
OcMinute ==
    /\ proc # "dead" /\ running = "onchain" /\ oc_pc = "minute"
    /\ IF MinuteOf(clock) < WINDOW_MINUTES
       THEN /\ oc_pc' = "info"
            /\ UNCHANGED <<oc_wake, oc_delay, running, oc_obs>>
       ELSE OcSleep(OC_RECHECK) /\ oc_obs' = Outcome("skip")
    /\ UNCHANGED <<chainVars, procVars, monVars, histVars, sumVars, clock,
                   current_hour, oc_lat, tx, txs, twVars>>

\* line 226: get_jackpot_info returns.
OcInfo ==
    /\ proc # "dead" /\ running = "onchain" /\ oc_pc = "info"
    /\ oc_pc' = "build"
    /\ UNCHANGED <<chainVars, procVars, running, monVars, histVars, sumVars,
                   clock, current_hour, oc_wake, oc_delay, oc_lat, tx, txs, oc_obs,
                   twVars>>

\* web3.eth.get_transaction_count(sender_address): the transactions the
\* account has sent.
get_transaction_count == Len(txs)

\* The build that takes the gas price of the account's last transaction
\* where it has one.
OcBuildCachedGas ==
    /\ proc # "dead" /\ running = "onchain" /\ oc_pc = "build"
    /\ LET message_index == DayOf(clock) % NUM_MESSAGES
           nonce == get_transaction_count
           cached == txs # <<>>
           gasPrice == IF cached THEN txs[Len(txs)].gasPrice ELSE gas_price
       IN  /\ tx' = [msg |-> message_index, nonce |-> nonce,
                     gasPrice |-> gasPrice, at |-> 0]
           /\ oc_obs' = [oc_obs EXCEPT !.nonceRead = nonce,
                                       !.gasRead = IF cached THEN NotRead ELSE gas_price]
    /\ oc_pc' = "send"
    /\ UNCHANGED <<chainVars, procVars, running, monVars, histVars, sumVars,
                   clock, current_hour, oc_wake, oc_delay, oc_lat, txs, twVars>>

\* lines 229-245: the message of the day is chosen and the transaction built
\* with the account's transaction count as its nonce and the network's gas
\* price, both read in the dict literal of line 240.
OcBuild ==
    /\ proc # "dead" /\ running = "onchain" /\ oc_pc = "build"
    /\ LET message_index == DayOf(clock) % NUM_MESSAGES
           nonce == get_transaction_count
           gasPrice == gas_price
       IN  /\ tx' = [msg |-> message_index, nonce |-> nonce,
                     gasPrice |-> gasPrice, at |-> 0]
           /\ oc_obs' = [oc_obs EXCEPT !.nonceRead = nonce, !.gasRead = gasPrice]
    /\ oc_pc' = "send"
    /\ UNCHANGED <<chainVars, procVars, running, monVars, histVars, sumVars,
                   clock, current_hour, oc_wake, oc_delay, oc_lat, txs, twVars>>

\* lines 248-255: the transaction is signed and sent, and the task sleeps
\* three hours.
OcSend ==
    /\ proc # "dead" /\ running = "onchain" /\ oc_pc = "send"
    /\ txs' = Append(txs, [msg |-> tx.msg, nonce |-> tx.nonce,
                           gasPrice |-> tx.gasPrice, at |-> clock,
                           nonceRead |-> oc_obs.nonceRead,
                           gasRead |-> oc_obs.gasRead])
    /\ tx' = NoTx
    /\ OcSleep(OcCooldown)
    /\ oc_obs' = Outcome("sent")
    /\ UNCHANGED <<chainVars, procVars, monVars, histVars, sumVars, clock,
                   current_hour, oc_lat, twVars>>

\* lines 260-262: a chain call of the cycle raises (a snapshot read, the
\* transaction count, the gas price, the send).
OcRaises ==
    /\ proc # "dead" /\ running = "onchain" /\ oc_pc \in {"info", "build", "send"}
    /\ tx' = NoTx
    /\ OcSleep(OC_ERROR)
    /\ oc_obs' = Outcome("error")
    /\ UNCHANGED <<chainVars, procVars, monVars, histVars, sumVars, clock,
                   current_hour, oc_lat, txs, twVars>>

\* The sleep is over: the next iteration of the loop.
OcWake(horizon) ==
    /\ proc = "running" /\ running = "none" /\ oc_pc = "sleeping"
    /\ oc_wake < horizon
    /\ clock' = IF oc_wake > clock THEN oc_wake ELSE clock
    /\ running' = "onchain"
    /\ oc_pc' = "hour"
    /\ oc_lat' = 0
    /\ oc_delay' = 0
    /\ oc_obs' = NoObs
    /\ UNCHANGED <<chainVars, procVars, monVars, histVars, sumVars,
                   current_hour, oc_wake, tx, txs, twVars>>

\* lines 265-277: a task has raised; once every task created by
\* asyncio.gather has had its first run (they start in the order monitoring,
\* summary, on-chain and each runs up to its first sleep), main is resumed
\* with the exception and agent.run ends the process.
MainRaises ==
    /\ proc = "failing" /\ running = "none"
    /\ sum_pc # "start" /\ oc_pc # "setup"
    /\ proc' = "dead"
    /\ UNCHANGED <<chainVars, hashSeed, restarts, environ, running, monVars,
                   histVars, others>>

OnChain(horizon) ==
    \/ Tick(horizon)
    \/ OcSetup
    \/ OcSetupRaises
    \/ OcHour
    \/ OcMinute
    \/ OcInfo
    \/ OcBuild
    \/ OcSend
    \/ OcRaises
    \/ OcWake(horizon)

(***************************************************************************)
(* post_to_twitter: the text of the tweet.  A text is a sequence of        *)
(* pieces [src, from, len]: len characters of the text src (the            *)
(* description, the message, the hashtags, ...) starting at offset from.   *)
(***************************************************************************)
Str(src, n) == IF n = 0 THEN <<>> ELSE <<[src |-> src, from |-> 0, len |-> n]>>

RECURSIVE StrLen(_)
\* len(text)
StrLen(t) == IF t = <<>> THEN 0 ELSE Head(t).len + StrLen(Tail(t))

RECURSIVE Take(_, _)
\* text[:n]
Take(t, n) ==
    IF t = <<>> \/ n <= 0 THEN <<>>
    ELSE IF Head(t).len <= n THEN <<Head(t)>> \o Take(Tail(t), n - Head(t).len)
    ELSE <<[Head(t) EXCEPT !.len = n]>>

\* len() of the values of EVENT_DESCRIPTIONS; a type without an entry gets "".
DescribedTypes == {"NEW_SECRET", "JACKPOT_FUNDED", "JACKPOT_WON", "NEW_HINT",
                   "LARGE_BATCH"}
OtherTypes == {"GUESS_MILESTONE", "INTERESTING_GUESS", "DAILY_SUMMARY"}
AnnouncementTypes == DescribedTypes \cup OtherTypes
EVENT_DESCRIPTIONS(type) ==
    CASE type = "NEW_SECRET" -> Str("description", LEN_NEW_SECRET)
      [] type = "JACKPOT_FUNDED" -> Str("description", LEN_JACKPOT_FUNDED)
      [] type = "JACKPOT_WON" -> Str("description", LEN_JACKPOT_WON)
      [] type = "NEW_HINT" -> Str("description", LEN_NEW_HINT)
      [] type = "LARGE_BATCH" -> Str("description", LEN_LARGE_BATCH)
      [] OTHER -> <<>>

\* The trim that keeps TWEET_MAX characters before the marker.
TrimLate(t) ==
    IF StrLen(t) > TWEET_MAX THEN Take(t, TWEET_MAX) \o Str("ellipsis", LEN_ELLIPSIS)
    ELSE t

\* The trim that cuts at TWEET_MAX and appends no marker.
TrimNoMarker(t) ==
    IF StrLen(t) > TWEET_MAX THEN Take(t, TWEET_MAX) ELSE t

\* lines 169-170: the trim.
Trim(t) ==
    IF StrLen(t) > TWEET_MAX THEN Take(t, TWEET_KEEP) \o Str("ellipsis", LEN_ELLIPSIS)
    ELSE t

\* lines 157-166: the text before the trim.
ComposeTweet(announcement_type, message) ==
    LET description == EVENT_DESCRIPTIONS(announcement_type)
        hashtags == Str("hashtags", LEN_HASHTAGS)
    IN  IF description # <<>>
        THEN description \o Str("newlines", 2) \o message \o hashtags
        ELSE message \o hashtags

\* lines 157-170: the tweet of a call.
FormatTweet(announcement_type, message) ==
    Trim(ComposeTweet(announcement_type, message))

\* A call of post_to_twitter with any type and any message.
PostToTwitter ==
    /\ tw_pc = "idle"
    /\ \E type \in AnnouncementTypes, n \in 0 .. MaxMessageLen :
         /\ tw_type' = type
         /\ tw_message' = Str("message", n)
         /\ tweet' = FormatTweet(type, Str("message", n))
    /\ tw_pc' = "posted"
    /\ UNCHANGED <<chainVars, procVars, running, monVars, histVars, sumVars,
                   clock, ocVars>>

\* line 177: the call returns and its locals are gone.
TwReturn ==
    /\ tw_pc = "posted"
    /\ tw_pc' = "idle"
    /\ tw_type' = ""
    /\ tw_message' = <<>>
    /\ tweet' = <<>>
    /\ UNCHANGED <<chainVars, procVars, running, monVars, histVars, sumVars,
                   clock, ocVars>>

(***************************************************************************)
(* Initial states and specifications.                                      *)
(***************************************************************************)
InitChain ==
    /\ block_number = LOOKBACK
    /\ chainLog = <<>>
    /\ totalGuesses = StartGuesses
    /\ jackpotAmount = StartJackpot
    /\ uniquePlayers = 0
    /\ gas_price = 1

InitProc(seeds, envs) ==
    /\ proc = "running"
    /\ hashSeed \in seeds
    /\ restarts = 0
    /\ environ \in envs
    /\ running = "none"

InitMonitor(pc) ==
    /\ mon_pc = pc
    /\ mon_kind = 1
    /\ cursor = NoCursor
    /\ batch = <<>>
    /\ mon_delay = 0
    /\ classified = {}
    /\ guessTrace = {}
    /\ decisions = {}
    /\ posts = EmptyBag
    /\ cyc = NewCycle
    /\ lastFetch = NoFetch

InitSummary(pc) ==
    /\ sum_pc = pc
    /\ sum_delay = 0
    /\ sum_wake = 0
    /\ sum_last = "none"

InitOnChain(pc, starts) ==
    /\ clock \in starts
    /\ oc_pc = pc
    /\ current_hour = 0
    /\ oc_wake = 0
    /\ oc_delay = 0
    /\ oc_lat = 0
    /\ tx = NoTx
    /\ txs = <<>>
    /\ oc_obs = NoObs

InitTweet(pc) ==
    /\ tw_pc = pc
    /\ tw_type = ""
    /\ tw_message = <<>>
    /\ tweet = <<>>

\* The monitoring task alone, with the chain.
Init ==
    /\ InitChain /\ InitProc(Seeds, {EnvNames})
    /\ InitMonitor("setup")
    /\ InitSummary("off")
    /\ InitOnChain("off", {0})
    /\ InitTweet("off")

Chain == ChainStep(MaxEvents)

Next ==
    \/ Chain
    \/ Monitor
    \/ MainRaises

Spec == Init /\ [][Next]_vars

\* The monitoring task in a process that may be stopped and started again.
NextRestart ==
    \/ Chain
    \/ Monitor
    \/ MainRaises
    \/ Restart

SpecRestart == Init /\ [][NextRestart]_vars

\* The on-chain interaction task alone, started at any minute of a day and
\* run to the end of day MaxDays.
DayMinutes == 0 .. (24 * 60 - 1)
Horizon == MaxDays * 24 * 60

InitOc ==
    /\ InitChain /\ InitProc({0}, {EnvNames})
    /\ InitMonitor("off")
    /\ InitSummary("off")
    /\ InitOnChain("setup", DayMinutes)
    /\ InitTweet("off")

NextOc == OnChain(Horizon) \/ MainRaises

SpecOc == InitOc /\ [][NextOc]_vars

\* The on-chain interaction task started in the half hour before the noon
\* window or inside it and run past the evening window, on a network whose
\* gas price moves.
NonceStarts == (11 * 60 + 30) .. (12 * 60 + WINDOW_MINUTES - 1)
NonceHorizon == 18 * 60 + 30

InitNonce ==
    /\ InitChain /\ InitProc({0}, {EnvNames})
    /\ InitMonitor("off")
    /\ InitSummary("off")
    /\ InitOnChain("setup", NonceStarts)
    /\ InitTweet("off")

NextNonce ==
    \/ OnChain(NonceHorizon)
    \/ GasPriceMoves
    \/ MainRaises

SpecNonce == InitNonce /\ [][NextNonce]_vars

\* post_to_twitter alone, called with every type and message length.
InitTw ==
    /\ InitChain /\ InitProc({0}, {EnvNames})
    /\ InitMonitor("off")
    /\ InitSummary("off")
    /\ InitOnChain("off", {0})
    /\ InitTweet("idle")

NextTw ==
    \/ PostToTwitter
    \/ TwReturn

SpecTw == InitTw /\ [][NextTw]_vars

\* main: asyncio.gather of the three tasks on one event loop, started a
\* quarter of an hour before the noon window.
MainStart == 11 * 60 + 45
MainHorizon == MainStart + MainMinutes

InitTasks(envs) ==
    /\ InitChain /\ InitProc({0}, envs)
    /\ InitMonitor("setup")
    /\ InitSummary("start")
    /\ InitOnChain("setup", {MainStart})
    /\ InitTweet("off")

InitMain == InitTasks({EnvNames})

NextMain ==
    \/ ChainStep(MainEvents)
    \/ Monitor
    \/ Summary(MainHorizon)
    \/ OnChain(MainHorizon)
    \/ MainRaises

SpecMain == InitMain /\ [][NextMain]_vars

\* main started with any of the environment variables missing.
InitEnv == InitTasks(SUBSET EnvNames)

SpecEnv == InitEnv /\ [][NextMain]_vars

(***************************************************************************)
(* Observations the properties are stated with.                            *)
(***************************************************************************)
KindIndex(name) == CHOOSE k \in 1 .. NKinds : Kinds[k] = name
EventIds == 1 .. Len(chainLog)
CommitIds == {i \in EventIds : chainLog[i].kind = "GuessCommitted"}

\* The filter of event i has moved past it.
Passed(i) == chainLog[i].height <= cursor[KindIndex(chainLog[i].kind)]

\* Event i waits in the for-loop that is running.
Pending(i) == mon_pc = "process" /\ i \in SeqToSet(batch)

\* totalGuesses right after commit i.
CountAt(i) == StartGuesses + Cardinality({j \in CommitIds : j <= i})

\* The published messages of a type that carry a count.
MilestonePosts(c) ==
    {m \in BagToSet(posts) : m.type = "GUESS_MILESTONE" /\ m.total = c}
NumMilestonePosts(c) ==
    BagCardinality([m \in MilestonePosts(c) |-> CopiesIn(m, posts)])

MilestonePosted(ev) ==
    \E m \in BagToSet(posts) : m.type = "GUESS_MILESTONE" /\ m.ev = ev

\* Event i went through lines 98-110 with every call returning and the post
\* (if any) going out.
CleanlyProcessed(i) ==
    \E r \in guessTrace : r.ev = i /\ r.total >= 0 /\ r.info # "failed"
                          /\ r.publish # "failed"

(***************************************************************************)
(* C1.  A filter stands past an event if and only if the event was handed *)
(* to the loop body (or is waiting in the running for-loop): no event the *)
(* cursor has passed is left unvisited.                                    *)
(***************************************************************************)
C1_CursorPastBatchIffClassified ==
    \A i \in EventIds : Passed(i) <=> (i \in classified \/ Pending(i))

(***************************************************************************)
(* C2.  A cycle in which the handling of one event raised still visits    *)
(* every event it fetched, polls all four filters and ends in the idle    *)
(* delay of 30 s.                                                          *)
(***************************************************************************)
C2_EventFailureIsPerEvent ==
    (mon_pc = "sleeping" /\ cyc.failed = "process") =>
        /\ mon_delay = MON_IDLE
        /\ cyc.got \subseteq classified
        /\ mon_kind = NKinds

(***************************************************************************)
(* C3 as stated.  In a cycle whose poll raised, the cursor of no filter   *)
(* has changed, and the task sleeps the error delay.                       *)
(***************************************************************************)
C3_NoCursorChangesInFailedCycle ==
    (mon_pc = "sleeping" /\ cyc.failed = "fetch") =>
        /\ mon_delay = MON_ERROR
        /\ cyc.moved = {}

(***************************************************************************)
(* C3 as amended.  In a cycle whose poll of a filter raised, the task     *)
(* sleeps the error delay, the cursor of that filter and of every filter  *)
(* polled after it is unchanged, every event the cycle fetched before the *)
(* failure was visited, and the next poll of the failed filter that       *)
(* returns starts from the cursor held at the failure.                     *)
(***************************************************************************)
C3_FailedPollKeepsItsCursor ==
    /\ (mon_pc = "sleeping" /\ cyc.failed = "fetch") =>
          /\ mon_delay = MON_ERROR
          /\ \A j \in cyc.failKind .. NKinds : j \notin cyc.moved
          /\ cyc.got \subseteq classified
    /\ lastFetch.kind # 0 => cursor[lastFetch.kind] = lastFetch.from
    /\ lastFetch.retry # "moved"

\* A poll failed, the next poll of that filter returned events from the same
\* cursor.
C3_Witness ==
    /\ lastFetch.retry = "same"
    /\ mon_pc = "process"
    /\ batch # <<>>

C8_ExactlyOneMilestonePerCount ==
    \A i \in CommitIds :
        (CountAt(i) % 10 = 0 /\ CleanlyProcessed(i)) =>
            NumMilestonePosts(CountAt(i)) = 1

(***************************************************************************)
(* C9.  Every classification of the same GuessRevealed event, also after  *)
(* a restart of the process, takes the same decision.                      *)
(***************************************************************************)
C9_SameDecisionOnRedelivery ==
    \A d1 \in decisions, d2 \in decisions :
        d1.ev = d2.ev => d1.publish = d2.publish

(***************************************************************************)
(* C4.  No error inside a task ends the process or another task: the      *)
(* process keeps running and no task is left by an exception.              *)
(***************************************************************************)
C4_TaskErrorsStayInTask ==
    /\ proc = "running"
    /\ mon_pc # "raised"
    /\ oc_pc # "raised"

(***************************************************************************)
(* C5.  Every transaction is sent at a clock value inside a window: the   *)
(* hour is 12 or 18 and the minute is below 5.                             *)
(***************************************************************************)
C5_SendsOnlyInWindow ==
    \A i \in 1 .. Len(txs) : InWindow(txs[i].at)

\* The hour, counted from the start of the run, a clock value lies in: two
\* clock values inside windows lie in the same window iff it is the same.
WindowOf(c) == c \div 60

(***************************************************************************)
(* C6.  No two transactions are sent in the same window of the same day.  *)
(***************************************************************************)
C6_AtMostOnePerWindow ==
    \A i \in 1 .. Len(txs), j \in 1 .. Len(txs) :
        (i < j /\ InWindow(txs[i].at) /\ InWindow(txs[j].at)) =>
            WindowOf(txs[i].at) # WindowOf(txs[j].at)

\* A transaction went out in the noon window, the task came back to check
\* during the cool-down's end and sent another one in the evening window.
C6_Witness ==
    /\ Len(txs) >= 2
    /\ InWindow(txs[1].at) /\ HourOf(txs[1].at) = 12
    /\ InWindow(txs[2].at) /\ HourOf(txs[2].at) = 18

(***************************************************************************)
(* C10.  The text post_to_twitter prints has at most 280 characters.       *)
(***************************************************************************)
C10_TweetAtMost280 ==
    tw_pc = "posted" => StrLen(tweet) <= 280

\* A call whose text was trimmed: description, newlines, message and
\* hashtags together exceed 280 characters.
C10_Witness ==
    /\ tw_pc = "posted"
    /\ tw_type \in DescribedTypes
    /\ StrLen(EVENT_DESCRIPTIONS(tw_type)) + 2 + StrLen(tw_message) + LEN_HASHTAGS > 280
    /\ tweet[Len(tweet)].src = "ellipsis"

(***************************************************************************)
(* The text that survives the trim.                                        *)
(***************************************************************************)
\* The call in hand cut its text.
Truncated == tw_pc = "posted" /\ StrLen(ComposeTweet(tw_type, tw_message)) > TWEET_MAX

\* The tweet ends with the three-character marker.
EndsWithEllipsis ==
    /\ tweet # <<>>
    /\ tweet[Len(tweet)] = [src |-> "ellipsis", from |-> 0, len |-> LEN_ELLIPSIS]

\* C11 as stated: whenever post_to_twitter truncates, the tweet ends with
\* '...' and its first 277 characters are the first 277 characters of the
\* message the caller passed, for every announcement type.
C11_KeepsMessagePrefix ==
    Truncated =>
        /\ EndsWithEllipsis
        /\ Take(tweet, TWEET_KEEP) = Take(tw_message, TWEET_KEEP)

\* C11 amended: whenever post_to_twitter truncates, the tweet ends with '...'
\* and its first 277 characters are the first 277 characters of the composed
\* text (description and blank line if the type has one, then the message,
\* then the hashtags).
C11_KeepsComposedPrefix ==
    Truncated =>
        /\ EndsWithEllipsis
        /\ StrLen(tweet) = TWEET_KEEP + LEN_ELLIPSIS
        /\ Take(tweet, TWEET_KEEP) = Take(ComposeTweet(tw_type, tw_message), TWEET_KEEP)

\* A truncated tweet of a described type whose first characters are the
\* description and not the message.
C11_Witness ==
    /\ Truncated
    /\ tw_type \in DescribedTypes
    /\ tweet[1].src = "description"
    /\ Take(tweet, TWEET_KEEP) # Take(tw_message, TWEET_KEEP)

(***************************************************************************)
(* The sleep after a failed cycle and the sleep after a good one.          *)
(***************************************************************************)
\* A task sleeps after a cycle that ended in its except clause.
MonFailedSleep == mon_pc = "sleeping" /\ cyc.failed # "none"
SumFailedSleep == sum_pc = "sleeping" /\ sum_last = "error"
OcFailedSleep == oc_pc = "sleeping" /\ oc_obs.last = "error"

\* C12 as stated: for each of the three tasks the sleep after a failed cycle
\* is at least as long as every sleep of the task after a cycle that did not
\* fail (30 s; 86400 s; 15 minutes and 3 hours).
C12_ErrorDelayAtLeastIdleDelay ==
    /\ MonFailedSleep => mon_delay >= MON_IDLE
    /\ SumFailedSleep => sum_delay >= SUM_IDLE
    /\ OcFailedSleep => oc_delay >= OC_RECHECK /\ oc_delay >= OcCooldown

\* C12 amended: the monitoring task sleeps 60 s after a failed cycle, at least
\* its idle 30 s; the on-chain task sleeps 1 hour, at least its 15-minute
\* re-check and less than its 3-hour cool-down; the summary task sleeps 1
\* hour, less than its idle 86400 s.
C12_ErrorDelayPerTask ==
    /\ MonFailedSleep => mon_delay = MON_ERROR /\ mon_delay >= MON_IDLE
    /\ SumFailedSleep => sum_delay = SUM_ERROR /\ sum_delay < SUM_IDLE
    /\ OcFailedSleep =>
          /\ oc_delay = OC_ERROR
          /\ oc_delay >= OC_RECHECK
          /\ oc_delay < OcCooldown

\* All three tasks asleep after a failed cycle each.
C12_Witness == MonFailedSleep /\ SumFailedSleep /\ OcFailedSleep

(***************************************************************************)
(* A missing configuration value.                                          *)
(***************************************************************************)
\* What a task has done to the outside: events a poll returned, messages
\* published, transactions sent.
EventsFetched == cyc.got # {} \/ classified # {}
NothingDone == ~EventsFetched /\ posts = EmptyBag /\ txs = <<>>

\* C13: when the signing key or the notifier credentials are missing, the
\* process aborts before any task has run a cycle: no event is fetched, no
\* message published and no transaction sent.
C13_MissingConfigStopsEverything ==
    environ # EnvNames => NothingDone

(***************************************************************************)
(* One task inside an external call, another with its sleep over.          *)
(***************************************************************************)
\* The on-chain task is at an external call of its cycle (the snapshot reads,
\* the transaction count and gas price, the send) and minutes have passed
\* since the cycle began.
InSlowCall ==
    /\ running = "onchain"
    /\ oc_pc \in {"info", "build", "send"}
    /\ oc_lat > 0

\* The sleep of another task is over: the monitoring task went to sleep
\* before the on-chain cycle began, the summary task sleeps to sum_wake.
MonSleepOver ==
    proc = "running" /\ mon_pc = "sleeping" /\ oc_lat * 60 >= mon_delay
SumSleepOver ==
    proc = "running" /\ sum_pc = "sleeping" /\ sum_wake <= clock

\* C14: while one task waits for a slow external call, every other task whose
\* sleep is over can start its next cycle.
C14_SlowCallBlocksNoOne ==
    InSlowCall =>
        /\ MonSleepOver => ENABLED MonWake
        /\ SumSleepOver => ENABLED SumWake(MainHorizon)

(***************************************************************************)
(* A publish that failed.                                                  *)
(***************************************************************************)
\* A task sleeps after a cycle in which post_to_twitter returned False.
MonUnsentSleep == proc = "running" /\ mon_pc = "sleeping" /\ cyc.unsent
SumUnsentSleep == proc = "running" /\ sum_pc = "sleeping" /\ sum_last = "unsent"

\* C15: a cycle of the monitoring or the summary task in which a publish
\* failed counts as failed and is followed by the error delay.
C15_FailedPublishFailsTheCycle ==
    /\ MonUnsentSleep => cyc.failed # "none" /\ mon_delay = MON_ERROR
    /\ SumUnsentSleep => sum_delay = SUM_ERROR

(***************************************************************************)
(* The nonce and the gas price of a transaction.                           *)
(***************************************************************************)
\* The nonce and gas price of t are the values read in the cycle that holds
\* or sent t.
FreshlyRead(t, nonceRead, gasRead) ==
    /\ nonceRead # NotRead /\ t.nonce = nonceRead
    /\ gasRead # NotRead /\ t.gasPrice = gasRead

\* C16: every transaction carries a nonce and a gas price read from the chain
\* in the cycle that sends it; no nonce is used twice and no value of an
\* earlier cycle is used again.
C16_NonceAndGasReadInSendingCycle ==
    /\ \A i \in 1 .. Len(txs) :
          /\ FreshlyRead(txs[i], txs[i].nonceRead, txs[i].gasRead)
          /\ txs[i].nonce = i - 1
    /\ oc_pc = "send" => FreshlyRead(tx, oc_obs.nonceRead, oc_obs.gasRead)

\* Two transactions sent, the second at another gas price than the first.
C16_Witness ==
    /\ Len(txs) >= 2
    /\ txs[2].gasPrice # txs[1].gasPrice
    /\ txs[2].nonce = 1

(***************************************************************************)
(* A loop that has started goes on.                                        *)
(***************************************************************************)
\* C17: no task ends on an error: a task asleep after a failed cycle of its
\* loop is a task of a live process, which starts its next cycle when the
\* sleep is over.
C17_FailedCycleIsFollowedByAnother ==
    /\ MonFailedSleep => proc = "running"
    /\ SumFailedSleep => proc = "running"

(***************************************************************************)
(* The cursor over all cycles.                                             *)
(***************************************************************************)
\* A cycle has ended with every event its filters stand past handed to a
\* loop body.
NothingLeftBehind ==
    \A i \in EventIds : Passed(i) => i \in classified

\* C18: over all cycles the cursor of each filter, once the filter is
\* created, never moves backwards, and a cycle never ends (in the idle or in
\* the error delay) with a filter past an event that was not processed.
C18_CursorMonotoneBehindProcessing ==
    [][/\ mon_pc # "setup" => \A k \in 1 .. NKinds : cursor'[k] >= cursor[k]
       /\ (mon_pc # "sleeping" /\ mon_pc' = "sleeping") => NothingLeftBehind']_vars

(***************************************************************************)
(* The steps of one task inside the cycle of another.                      *)
(***************************************************************************)
\* A task is between the start of a cycle and the asyncio.sleep that ends it.
MonMidCycle == mon_pc \in {"fetch", "process"}
SumMidCycle == sum_pc = "info"
OcMidCycle == oc_pc \in {"hour", "minute", "info", "build", "send"}

\* C19: control passes between the tasks only at an asyncio.sleep: while a
\* task is inside a cycle no other task takes a step.
C19_NoStepInsideAnothersCycle ==
    [][/\ MonMidCycle => UNCHANGED <<sumVars, ocVars>>
       /\ SumMidCycle => UNCHANGED <<monVars, ocVars>>
       /\ OcMidCycle => UNCHANGED <<monVars, sumVars>>]_vars

\* The on-chain task is inside a cycle that has taken a minute, and the other
\* two tasks are asleep, the monitoring task for its whole delay.
C19_Witness ==
    /\ OcMidCycle /\ oc_lat > 0
    /\ mon_pc = "sleeping" /\ oc_lat * 60 >= mon_delay
    /\ sum_pc = "sleeping"

(***************************************************************************)
(* A window the task sleeps through.                                       *)
(***************************************************************************)
\* A transaction sent in the window that opens at w.
SentIn(w, sent) ==
    \E i \in 1 .. Len(sent) : sent[i].at >= w /\ sent[i].at < w + WINDOW_MINUTES

\* C20: every window that opens while the on-chain task is in its loop and
\* in which no chain call fails gets a transaction: when the task wakes from
\* a sleep that followed a cycle without error, every window that opened and
\* closed during the sleep has one.
C20_EveryWindowGetsATransaction ==
    [][\A w \in WindowStarts :
          (/\ oc_pc = "sleeping" /\ oc_pc' = "hour"
           /\ oc_obs.last # "error"
           /\ clock < w /\ w + WINDOW_MINUTES <= clock')
          => SentIn(w, txs')]_vars

====
